---- MODULE Spec2Model ----
(***************************************************************************)
(* Bookmark extraction pipeline of scripts/extract_bookmarks.py: the time  *)
(* converters, the favicon fetcher, the Chromium and Firefox parsers and   *)
(* the merge/dedup driver (main); and the icon cache of the IconExtractor  *)
(* of scripts/extract_icons.py.                                            *)
(*                                                                         *)
(* Python strings are sequences of one-character strings, so that          *)
(* startswith, split and int() are computed as Python computes them.       *)
(* A Python value is a record tagged by its field k.                       *)
(***************************************************************************)
EXTENDS Integers, Sequences, FiniteSets, TLC

VARIABLES
    call,            \* the function call in progress / last made, with its arguments
    ret,             \* what that call returned, or the exception it raised
    tmp_files,       \* the temporary database copies ('<db>.tmp') that exist on disk
    pc,              \* main's position; "off" when main is not running
    args,            \* main's parsed command line
    output_file,     \* the content of OUTPUT_FILE
    backup_file,     \* the content of OUTPUT_FILE + '.bak'
    prior_output,    \* the content OUTPUT_FILE had when main started
    all_bookmarks,   \* main's all_bookmarks
    processed_urls,  \* main's processed_urls
    new_bookmarks,   \* the records of the current browser not yet merged
    todo,            \* the browsers of browsers_to_scan not yet scanned
    log,             \* the warnings and errors main has printed
    error,           \* the exception that left main, None when none did
    first_seen,      \* history: per url, the first record main came across
    parsed_urls,     \* history: the urls of the parsed records main came across
    has_win32,       \* extract_icons.HAS_WIN32
    icon_cache,      \* the IconExtractor's icon_cache: identifier -> entry
    item_list,       \* the list handed to process_icon_batch
    batch,           \* how many times process_icon_batch was called with it
    idx,             \* the item the running batch is at; 0 when none is running
    results,         \* the running batch's results
    icon_log         \* history: per batch and item, how its icon was obtained
                     \* and the value the extraction returned

mainvars == <<pc, args, output_file, backup_file, prior_output, all_bookmarks,
              processed_urls, new_bookmarks, todo, log, error, first_seen,
              parsed_urls>>

iconvars == <<has_win32, icon_cache, item_list, batch, idx, results, icon_log>>

vars == <<call, ret, tmp_files, pc, args, output_file, backup_file, prior_output,
          all_bookmarks, processed_urls, new_bookmarks, todo, log, error,
          first_seen, parsed_urls, has_win32, icon_cache, item_list, batch, idx,
          results, icon_log>>

----------------------------------------------------------------------------
(* Python values *)

None == [k |-> "None"]
Missing == [k |-> "missing"]          \* a key the dict does not have
Get(v, default) == IF v.k = "missing" THEN default ELSE v   \* dict.get(key, default)
PyStr(s) == [k |-> "str", s |-> s]
PyNum(n) == [k |-> "int", n |-> n]
Raise(e) == [k |-> "raise", exc |-> e]
Pending == [k |-> "pending"]
PyList(items) == [k |-> "list", v |-> items]
PyDict == [k |-> "dict"]              \* the empty dict {}

\* bool(v) for the value kinds that occur
Truthy(v) ==
    CASE v.k = "None" -> FALSE
      [] v.k = "str" -> v.s # <<>>
      [] v.k = "int" -> v.n # 0
      [] OTHER -> TRUE

\* all sequences over S of length at most n
SeqsUpTo(S, n) == UNION {[1..m -> S] : m \in 0..n}

----------------------------------------------------------------------------
(* int(x) *)

Digits == <<"0", "1", "2", "3", "4", "5", "6", "7", "8", "9">>

IsDigit(c) == \E i \in 1..Len(Digits) : Digits[i] = c

DigitVal(c) == (CHOOSE i \in 1..Len(Digits) : Digits[i] = c) - 1

RECURSIVE Decimal(_)
Decimal(ds) ==
    IF ds = <<>> THEN 0
    ELSE 10 * Decimal(SubSeq(ds, 1, Len(ds) - 1)) + DigitVal(ds[Len(ds)])

RECURSIVE LStrip(_)
LStrip(s) == IF s # <<>> /\ Head(s) = " " THEN LStrip(Tail(s)) ELSE s

RECURSIVE RStrip(_)
RStrip(s) ==
    IF s # <<>> /\ s[Len(s)] = " " THEN RStrip(SubSeq(s, 1, Len(s) - 1)) ELSE s

\* int(v): an int is itself; a string is stripped of surrounding whitespace,
\* then an optional sign and one or more decimal digits; anything else is a
\* ValueError.
PyInt(v) ==
    IF v.k = "int" THEN v
    ELSE IF v.k = "str" THEN
        LET t == RStrip(LStrip(v.s))
            signed == t # <<>> /\ Head(t) \in {"-", "+"}
            ds == IF signed THEN Tail(t) ELSE t
            mag == Decimal(ds)
        IN  IF ds # <<>> /\ \A i \in 1..Len(ds) : IsDigit(ds[i])
            THEN PyNum(IF signed /\ Head(t) = "-" THEN 0 - mag ELSE mag)
            ELSE Raise("ValueError")
    ELSE Raise("TypeError")

----------------------------------------------------------------------------
(* Time converters *)

ChromeEpochYear == 1601
UnixEpochYear == 1970

\* the text of the instant `us` microseconds after 1 January of `epoch`,
\* with the suffix 'Z'
Iso(epoch, us) == [k |-> "iso", epoch |-> epoch, us |-> us]

\* convert_chrome_time without the test int(chrome_time) == 0
convert_chrome_time_no_zero_test(chrome_time) ==
    IF ~Truthy(chrome_time) THEN None
    ELSE LET i == PyInt(chrome_time)
         IN  IF i.k = "raise" THEN i ELSE Iso(ChromeEpochYear, i.n)

\* if not chrome_time or int(chrome_time) == 0: return None
convert_chrome_time(chrome_time) ==
    IF ~Truthy(chrome_time) THEN None
    ELSE LET i == PyInt(chrome_time)
         IN  IF i.k = "raise" THEN i
             ELSE IF i.n = 0 THEN None
             ELSE Iso(ChromeEpochYear, i.n)

\* if not firefox_time or int(firefox_time) == 0: return None
convert_firefox_time(firefox_time) ==
    IF ~Truthy(firefox_time) THEN None
    ELSE LET i == PyInt(firefox_time)
         IN  IF i.k = "raise" THEN i
             ELSE IF i.n = 0 THEN None
             ELSE Iso(UnixEpochYear, i.n)

----------------------------------------------------------------------------
(* String operations *)

\* s.startswith(p)
StartsWith(s, p) == Len(s) >= Len(p) /\ SubSeq(s, 1, Len(p)) = p

\* the index of the first c in s, or 0
IndexOf(s, c) ==
    IF \E i \in 1..Len(s) : s[i] = c
    THEN CHOOSE i \in 1..Len(s) : s[i] = c /\ \A j \in 1..(i - 1) : s[j] # c
    ELSE 0

\* s.split(sep) for a one-character separator
RECURSIVE Split(_, _)
Split(s, sep) ==
    LET i == IndexOf(s, sep)
    IN  IF i = 0 THEN <<s>>
        ELSE <<SubSeq(s, 1, i - 1)>> \o Split(SubSeq(s, i + 1, Len(s)), sep)

FilterNone_keeps_empty(segments) == segments

\* list(filter(None, segments))
FilterNone(segments) == SelectSeq(segments, LAMBDA x : x # <<>>)

HTTP == <<"h", "t", "t", "p">>
HTTPS == <<"h", "t", "t", "p", "s">>
SchemeSep == <<":", "/", "/">>

\* url.startswith(('http', 'https'))
StartsWithHttp(url) == StartsWith(url, HTTP) \/ StartsWith(url, HTTPS)

\* the guard of both parsers: not (not url or not url.startswith(('http', 'https')))
UrlAccepted(url) == Truthy(url) /\ StartsWithHttp(url.s)

\* urlparse(url).scheme and .netloc, then f"{scheme}://{netloc}/favicon.ico"
UrlScheme(url) ==
    LET i == IndexOf(url, ":") IN IF i > 1 THEN SubSeq(url, 1, i - 1) ELSE <<>>

UrlNetloc(url) ==
    LET i == IndexOf(url, ":")
        rest == IF i > 1 THEN SubSeq(url, i + 1, Len(url)) ELSE url
        host == IF StartsWith(rest, <<"/", "/">>) THEN SubSeq(rest, 3, Len(rest)) ELSE <<>>
        j == IndexOf(host, "/")
    IN  IF j = 0 THEN host ELSE SubSeq(host, 1, j - 1)

FaviconIco == <<"/", "f", "a", "v", "i", "c", "o", "n", ".", "i", "c", "o">>

FaviconUrl(url) == UrlScheme(url) \o SchemeSep \o UrlNetloc(url) \o FaviconIco

\* f"data:image/png;base64,{base64.b64encode(blob).decode('utf-8')}"
DataUri(blob) == [k |-> "datauri", b64 |-> blob]

----------------------------------------------------------------------------
(* Favicon fetcher *)

\* db_path + '.tmp'
TmpPath(db_path) == <<db_path, ".tmp">>

\* db: the icon database file at db.path. db.k is "absent" (no such file),
\* "nocopy" (shutil.copy2 fails), "corrupt" (the copy is no readable SQLite
\* database: sqlite3.Error) or "ok" with db.icons, the image stored per
\* favicon URL. fs: the temporary copies on disk. The result is the value
\* returned or the exception raised, and the temporary copies then on disk.
get_favicon_base64(db, url, fs) ==
    IF db.k = "absent" THEN [ret |-> None, fs |-> fs]
    ELSE IF db.k = "nocopy" THEN [ret |-> Raise("OSError"), fs |-> fs]
    ELSE IF db.k = "corrupt"
    THEN \* except sqlite3.Error: a warning, and os.remove was not reached
         [ret |-> None, fs |-> fs \cup {TmpPath(db.path)}]
    ELSE LET favicon_url == FaviconUrl(url)
             result == IF favicon_url \in DOMAIN db.icons
                       THEN db.icons[favicon_url] ELSE <<>>
         IN  [ret |-> IF result # <<>> THEN DataUri(result) ELSE None,
              fs |-> fs \ {TmpPath(db.path)}]

----------------------------------------------------------------------------
(* Chromium bookmark parser *)

\* A node of the bookmark tree: a dict with the keys type, name, url,
\* date_added (Missing for a key the node lacks) and children (the empty
\* list for a node without the key, as node.get('children', []) reads it).
\* acc: the bookmarks appended so far, the exception raised (None when
\* none) and the temporary copies on disk.
\* ctx: browser_name, include_favicons and the icon database at
\* FAVICON_PATHS.get(browser_name) (Missing when the browser has none).
RECURSIVE recurse_nodes(_, _, _, _)
RECURSIVE recurse_children(_, _, _, _)

recurse_nodes(node, folder_path, ctx, acc) ==
    IF node.type = "url" THEN
        LET url == Get(node.url, None)
        IN  IF ~UrlAccepted(url) THEN acc
            ELSE
            LET tags == FilterNone(Split(folder_path, "/"))
                fav == IF ctx.include_favicons /\ ctx.favicon_db.k # "missing"
                       THEN get_favicon_base64(ctx.favicon_db, url.s, acc.fs)
                       ELSE [ret |-> None, fs |-> acc.fs]
                dateAdded == convert_chrome_time(Get(node.date_added, None))
            IN  IF fav.ret.k = "raise"
                THEN [acc EXCEPT !.exc = fav.ret, !.fs = fav.fs]
                ELSE IF dateAdded.k = "raise"
                THEN [acc EXCEPT !.exc = dateAdded, !.fs = fav.fs]
                ELSE [acc EXCEPT
                        !.fs = fav.fs,
                        !.bookmarks = Append(@,
                            [name |-> Get(node.name, None),
                             url |-> url,
                             category |-> PyStr(folder_path),
                             tags |-> tags,
                             favicon |-> fav.ret,
                             browser |-> ctx.browser_name,
                             dateAdded |-> dateAdded,
                             lastVisited |-> None])]
    ELSE IF node.type = "folder" THEN
        LET current_folder == Get(node.name, PyStr(<<>>)).s
            new_path == IF folder_path # <<>>
                        THEN folder_path \o <<"/">> \o current_folder
                        ELSE current_folder
        IN  recurse_children(node.children, new_path, ctx, acc)
    ELSE acc

\* for child in node.get('children', []): recurse_nodes(child, new_path)
recurse_children(children, new_path, ctx, acc) ==
    IF children = <<>> \/ acc.exc.k = "raise" THEN acc
    ELSE recurse_children(Tail(children), new_path, ctx,
                          recurse_nodes(Head(children), new_path, ctx, acc))

\* parse_chromium_bookmarks opening the file without the os.path.exists test
parse_chromium_bookmarks_no_exists_test(file, browser_name, include_favicons, favicon_db, fs) ==
    IF file.k = "absent"
    THEN [ret |-> <<>>, exc |-> Raise("FileNotFoundError"), fs |-> fs]
    ELSE IF file.k = "notjson"
    THEN [ret |-> <<>>, exc |-> Raise("JSONDecodeError"), fs |-> fs]
    ELSE IF file.k = "noroots"
    THEN [ret |-> <<>>, exc |-> Raise("KeyError"), fs |-> fs]
    ELSE LET ctx == [browser_name |-> browser_name,
                     include_favicons |-> include_favicons,
                     favicon_db |-> favicon_db]
             acc == recurse_children(file.roots, <<>>, ctx,
                                     [bookmarks |-> <<>>, exc |-> None, fs |-> fs])
         IN  [ret |-> IF acc.exc.k = "None" THEN acc.bookmarks ELSE <<>>,
              exc |-> acc.exc, fs |-> acc.fs]

\* file: the bookmarks file. file.k is "absent", "notjson" (json.load raises
\* JSONDecodeError), "noroots" (a JSON object without the key 'roots') or
\* "json" with file.roots, the values of data['roots'] in order; each is
\* walked with folder_path ''.
\* The result is the list returned or the exception raised, and the
\* temporary copies then on disk.
parse_chromium_bookmarks(file, browser_name, include_favicons, favicon_db, fs) ==
    IF file.k = "absent" THEN [ret |-> <<>>, exc |-> None, fs |-> fs]
    ELSE IF file.k = "notjson"
    THEN [ret |-> <<>>, exc |-> Raise("JSONDecodeError"), fs |-> fs]
    ELSE IF file.k = "noroots"
    THEN [ret |-> <<>>, exc |-> Raise("KeyError"), fs |-> fs]
    ELSE LET ctx == [browser_name |-> browser_name,
                     include_favicons |-> include_favicons,
                     favicon_db |-> favicon_db]
             acc == recurse_children(file.roots, <<>>, ctx,
                                     [bookmarks |-> <<>>, exc |-> None, fs |-> fs])
         IN  [ret |-> IF acc.exc.k = "None" THEN acc.bookmarks ELSE <<>>,
              exc |-> acc.exc, fs |-> acc.fs]

----------------------------------------------------------------------------
(* Firefox bookmark parser *)

\* for row in cursor.fetchall(): one row of the query's result, a tuple
\* (name, url, category, date_added, last_visited, favicon_data), None for NULL.
RECURSIVE firefox_rows(_, _, _, _)
firefox_rows(rows, browser_name, include_favicons, acc) ==
    IF rows = <<>> \/ acc.exc.k = "raise" THEN acc
    ELSE
    LET row == Head(rows)
        tags == IF Truthy(row.category)
                THEN FilterNone(Split(row.category.s, "/")) ELSE <<>>
        favicon == IF include_favicons /\ Truthy(row.favicon_data)
                   THEN DataUri(row.favicon_data.s) ELSE None
        dateAdded == convert_firefox_time(row.date_added)
        lastVisited == convert_firefox_time(row.last_visited)
        next ==
            IF ~UrlAccepted(row.url) THEN acc
            ELSE IF dateAdded.k = "raise" THEN [acc EXCEPT !.exc = dateAdded]
            ELSE IF lastVisited.k = "raise" THEN [acc EXCEPT !.exc = lastVisited]
            ELSE [acc EXCEPT !.bookmarks = Append(@,
                    [name |-> row.name,
                     url |-> row.url,
                     category |-> IF Truthy(row.category) THEN row.category
                                  ELSE PyStr(<<>>),
                     tags |-> tags,
                     favicon |-> favicon,
                     browser |-> browser_name,
                     dateAdded |-> dateAdded,
                     lastVisited |-> lastVisited])]
    IN  firefox_rows(Tail(rows), browser_name, include_favicons, next)

\* parse_firefox_bookmarks embedding the favicons whatever the flag says
parse_firefox_bookmarks_always_favicons(profiles, browser_name, include_favicons, fs) ==
    IF profiles.k # "ok"
    THEN [ret |-> <<>>, exc |-> None, fs |-> fs]
    ELSE LET acc == firefox_rows(profiles.rows, browser_name, TRUE,
                                 [bookmarks |-> <<>>, exc |-> None])
         IN  [ret |-> acc.bookmarks, exc |-> acc.exc, fs |-> fs]

\* profiles: the profiles directory. profiles.k is "nodir" (no such
\* directory), "nosqlite" (no places.sqlite below it), "nocopy"
\* (shutil.copy2 fails), "corrupt" (sqlite3.Error on connect or execute) or
\* "ok" with profiles.rows, the rows the query returns.
parse_firefox_bookmarks(profiles, browser_name, include_favicons, fs) ==
    LET temp_db_path == TmpPath("places.sqlite")
    IN  IF profiles.k \in {"nodir", "nosqlite"}
        THEN [ret |-> <<>>, exc |-> None, fs |-> fs]
        ELSE IF profiles.k = "nocopy"
        THEN [ret |-> <<>>, exc |-> Raise("OSError"), fs |-> fs]
        ELSE IF profiles.k = "corrupt"
        THEN \* except sqlite3.Error: return [], os.remove was not reached
             [ret |-> <<>>, exc |-> None, fs |-> fs \cup {temp_db_path}]
        ELSE LET acc == firefox_rows(profiles.rows, browser_name, include_favicons,
                                     [bookmarks |-> <<>>, exc |-> None])
             IN  IF acc.exc.k = "raise"
                 THEN \* not an sqlite3.Error: it leaves the function
                      [ret |-> <<>>, exc |-> acc.exc, fs |-> fs \cup {temp_db_path}]
                 ELSE [ret |-> acc.bookmarks, exc |-> None,
                       fs |-> fs \ {temp_db_path}]

----------------------------------------------------------------------------
(* Merge/dedup driver: the steps of main *)

\* BROWSER_PATHS.keys() and FAVICON_PATHS on Linux
BrowserKeys == <<"chrome", "firefox", "brave">>
HasFaviconPath(browser) == browser \in {"chrome", "brave"}

\* main when it is not running
MainOff ==
    /\ pc = "off"
    /\ args = None
    /\ output_file = [k |-> "absent"]
    /\ backup_file = [k |-> "absent"]
    /\ prior_output = [k |-> "absent"]
    /\ all_bookmarks = PyList(<<>>)
    /\ processed_urls = {}
    /\ new_bookmarks = <<>>
    /\ todo = <<>>
    /\ log = {}
    /\ error = None
    /\ first_seen = {}
    /\ parsed_urls = {}

\* no IconExtractor at work
IconsOff ==
    /\ has_win32 = FALSE
    /\ icon_cache = <<>>
    /\ item_list = <<>>
    /\ batch = 0
    /\ idx = 0
    /\ results = <<>>
    /\ icon_log = {}

\* the history first_seen after main came across record r
Seen(seen, r) == IF \E x \in seen : x.url = r.url THEN seen ELSE seen \cup {r}

\* ... and after the items of a loaded list, up to an item without 'url'
RECURSIVE SeenAll(_, _)
SeenAll(seen, items) ==
    IF items = <<>> \/ Head(items).url.k = "missing" THEN seen
    ELSE SeenAll(Seen(seen, Head(items)), Tail(items))

\* json.dump(value, f): the content of the file written
JsonDump(value) == [k |-> "json", v |-> value]

\* the urls of the items before the first item that has no 'url'
RECURSIVE UrlsUntilKeyError(_)
UrlsUntilKeyError(items) ==
    IF items = <<>> \/ Head(items).url.k = "missing" THEN {}
    ELSE {Head(items).url} \cup UrlsUntilKeyError(Tail(items))

\* The body of `if args.merge_existing and os.path.exists(OUTPUT_FILE)`.
\* file.k is "notjson" or "partial" (json.load raises JSONDecodeError) or
\* "json" with file.v the value json.load returns: a list of dicts, or the
\* empty dict.
load_existing(file) ==
    IF file.k # "json"
    THEN [all_bookmarks |-> PyList(<<>>), processed_urls |-> {},
          warned |-> TRUE, exc |-> None]
    ELSE IF file.v.k = "dict"
    THEN [all_bookmarks |-> file.v, processed_urls |-> {},
          warned |-> FALSE, exc |-> None]
    ELSE [all_bookmarks |-> file.v,
          processed_urls |-> UrlsUntilKeyError(file.v.v),
          warned |-> FALSE,
          exc |-> IF \E i \in 1..Len(file.v.v) : file.v.v[i].url.k = "missing"
                  THEN Raise("KeyError") ELSE None]

\* the merge loop with a later record replacing the one kept for its url
merge_bookmark_last_wins(bookmark, all, urls) ==
    IF all.k # "list"
    THEN [all_bookmarks |-> all, processed_urls |-> urls,
          exc |-> Raise("AttributeError")]
    ELSE IF bookmark.url \in urls
    THEN [all_bookmarks |->
              PyList([i \in 1..Len(all.v) |->
                        IF all.v[i].url = bookmark.url THEN bookmark ELSE all.v[i]]),
          processed_urls |-> urls, exc |-> None]
    ELSE [all_bookmarks |-> PyList(Append(all.v, bookmark)),
          processed_urls |-> urls \cup {bookmark.url},
          exc |-> None]

\* the merge loop without the processed_urls test
merge_bookmark_no_dedup(bookmark, all, urls) ==
    IF all.k # "list"
    THEN [all_bookmarks |-> all, processed_urls |-> urls,
          exc |-> Raise("AttributeError")]
    ELSE [all_bookmarks |-> PyList(Append(all.v, bookmark)),
          processed_urls |-> urls \cup {bookmark.url},
          exc |-> None]

\* the merge loop without processed_urls.add
merge_bookmark_url_not_added(bookmark, all, urls) ==
    IF bookmark.url \in urls
    THEN [all_bookmarks |-> all, processed_urls |-> urls, exc |-> None]
    ELSE IF all.k # "list"
    THEN [all_bookmarks |-> all, processed_urls |-> urls,
          exc |-> Raise("AttributeError")]
    ELSE [all_bookmarks |-> PyList(Append(all.v, bookmark)),
          processed_urls |-> urls,
          exc |-> None]

\* One pass of `for bookmark in new_bookmarks`.
merge_bookmark(bookmark, all, urls) ==
    IF bookmark.url \in urls
    THEN [all_bookmarks |-> all, processed_urls |-> urls, exc |-> None]
    ELSE IF all.k # "list"
    THEN \* a dict has no append
         [all_bookmarks |-> all, processed_urls |-> urls,
          exc |-> Raise("AttributeError")]
    ELSE [all_bookmarks |-> PyList(Append(all.v, bookmark)),
          processed_urls |-> urls \cup {bookmark.url},
          exc |-> None]

\* main without the backup step
backup_existing_skipped(output, backup) == backup

\* if os.path.exists(OUTPUT_FILE): shutil.copy2(OUTPUT_FILE, backup_path)
backup_existing(output, backup) ==
    IF output.k # "absent" THEN output ELSE backup

\* a lone surrogate, as json.load reads the escape \ud800: a character the
\* utf-8 codec of the output file cannot encode
Surrogate == "U+D800"

\* json.dump(all_bookmarks, f, ensure_ascii=False) into a file opened with
\* encoding='utf-8' meets a string it cannot encode
Unencodable(all) ==
    /\ all.k = "list"
    /\ \E i \in 1..Len(all.v) :
        /\ all.v[i].name.k = "str"
        /\ \E j \in 1..Len(all.v[i].name.s) : all.v[i].name.s[j] = Surrogate

\* how the write step may end: with the document written, or with an IOError
\* before the file is truncated ("open_fails") or after part of the document
\* was written ("dump_fails"), or with the UnicodeEncodeError of a string
\* that cannot be encoded ("encode_fails"), which rules out "ok"
WriteOutcomes(all) ==
    {"open_fails", "dump_fails"}
    \cup (IF Unencodable(all) THEN {"encode_fails"} ELSE {"ok"})

\* open(OUTPUT_FILE, 'w') and json.dump: the content of the output file
\* after the write step ended with `outcome`.
write_output(all, output, outcome) ==
    CASE outcome = "ok" -> JsonDump(all)
      [] outcome = "open_fails" -> output
      [] outcome \in {"dump_fails", "encode_fails"} -> [k |-> "partial"]

----------------------------------------------------------------------------
(* Bounded inputs of the parsers *)

UrlA == HTTP \o SchemeSep \o <<"a">>
UrlSA == HTTPS \o SchemeSep \o <<"a">>
UrlXA == HTTP \o <<"x">> \o SchemeSep \o <<"a">>
UrlChrome == <<"c", "h", "r", "o", "m", "e">> \o SchemeSep \o <<"x">>

UrlNode(name, url, date_added) ==
    [type |-> "url", name |-> name, url |-> url, date_added |-> date_added,
     children |-> <<>>]

Folder(name, children) ==
    [type |-> "folder", name |-> name, url |-> Missing, date_added |-> Missing,
     children |-> children]

Separator ==
    [type |-> "separator", name |-> Missing, url |-> Missing,
     date_added |-> Missing, children |-> <<>>]

\* the largest number of URL nodes directly below one folder
MaxLeaves == 2

\* the bookmark files with one root folder named in `names`, holding up to
\* MaxLeaves nodes of `leaves`, or a subfolder (of up to one leaf) followed
\* by up to one leaf
ChromiumFilesOver(leaves, names) ==
    LET sub == {Folder(n, ch) : n \in names, ch \in SeqsUpTo(leaves, 1)}
        below == SeqsUpTo(leaves, MaxLeaves)
                 \cup {<<f>> : f \in sub}
                 \cup {<<f, l>> : f \in sub, l \in leaves}
    IN  {[k |-> "absent"], [k |-> "notjson"], [k |-> "noroots"]}
        \cup {[k |-> "json", roots |-> <<Folder(n, ch)>>] : n \in names, ch \in below}

FaviconDbs ==
    {[k |-> kind, path |-> "Favicons"] : kind \in {"absent", "nocopy", "corrupt"}}
    \cup {[k |-> "ok", path |-> "Favicons", icons |-> i] :
            i \in {<<>>, (FaviconUrl(UrlA) :> <<"P">>)}}

\* the largest number of rows the Firefox query returns
MaxRows == 2

FirefoxProfilesOver(rows) ==
    {[k |-> kind] : kind \in {"nodir", "nosqlite", "nocopy", "corrupt"}}
    \cup {[k |-> "ok", rows |-> r] : r \in SeqsUpTo(rows, MaxRows)}

----------------------------------------------------------------------------
(* The parsers applied to bounded inputs *)

FolderNames == {PyStr(<<"A">>), PyStr(<<>>), Missing}

\* a URL node, and the nodes that differ from it in the url or in date_added
ParserLeaves ==
    LET base == UrlNode(PyStr(<<"n">>), PyStr(UrlA), PyStr(<<"5">>))
    IN  {base, Separator}
        \cup {[base EXCEPT !.url = u] :
                u \in {PyStr(UrlSA), PyStr(UrlXA), PyStr(UrlChrome), Missing}}
        \cup {[base EXCEPT !.date_added = d] :
                d \in {PyStr(<<"0">>), PyStr(<<"a">>), Missing}}

\* a row, and the rows that differ from it in one column
ParserRows ==
    LET base == [name |-> PyStr(<<"n">>), url |-> PyStr(UrlA),
                 category |-> PyStr(<<"A", "/", "B">>), date_added |-> PyNum(5),
                 last_visited |-> PyNum(7), favicon_data |-> PyStr(<<"P">>)]
    IN  {base}
        \cup {[base EXCEPT !.url = u] :
                u \in {PyStr(UrlSA), PyStr(UrlXA), PyStr(UrlChrome), None}}
        \cup {[base EXCEPT !.category = c] :
                c \in {None, PyStr(<<>>), PyStr(<<"A", "/", "/", "B">>)}}
        \cup {[base EXCEPT !.date_added = d] :
                d \in {None, PyNum(0), PyStr(<<"a">>)}}
        \cup {[base EXCEPT !.last_visited = d] : d \in {None, PyStr(<<"a">>)}}
        \cup {[base EXCEPT !.favicon_data = None]}

ParserCalls ==
    {[fn |-> "parse_chromium_bookmarks", file |-> f, browser_name |-> "chrome",
      include_favicons |-> FALSE, favicon_db |-> [k |-> "absent", path |-> "Favicons"]] :
        f \in ChromiumFilesOver(ParserLeaves, FolderNames)}
    \cup
    {[fn |-> "parse_chromium_bookmarks", file |-> f, browser_name |-> "chrome",
      include_favicons |-> TRUE, favicon_db |-> db] :
        f \in ChromiumFilesOver(ParserLeaves, FolderNames), db \in FaviconDbs}
    \cup
    {[fn |-> "parse_firefox_bookmarks", profiles |-> p, browser_name |-> "firefox",
      include_favicons |-> i] :
        p \in FirefoxProfilesOver(ParserRows), i \in BOOLEAN}
    \cup
    {[fn |-> "get_favicon_base64", db |-> db, url |-> u] :
        db \in FaviconDbs, u \in {UrlA, UrlSA, UrlChrome}}

InitParsers ==
    /\ call \in ParserCalls
    /\ ret = Pending
    /\ tmp_files = {}
    /\ MainOff
    /\ IconsOff

CallParseChromium ==
    /\ ret = Pending
    /\ call.fn = "parse_chromium_bookmarks"
    /\ LET r == parse_chromium_bookmarks(call.file, call.browser_name,
                    call.include_favicons, call.favicon_db, tmp_files)
       IN  /\ ret' = [k |-> "returned", value |-> r.ret, exc |-> r.exc]
           /\ tmp_files' = r.fs
    /\ UNCHANGED <<call, mainvars, iconvars>>

CallParseFirefox ==
    /\ ret = Pending
    /\ call.fn = "parse_firefox_bookmarks"
    /\ LET r == parse_firefox_bookmarks(call.profiles, call.browser_name,
                    call.include_favicons, tmp_files)
       IN  /\ ret' = [k |-> "returned", value |-> r.ret, exc |-> r.exc]
           /\ tmp_files' = r.fs
    /\ UNCHANGED <<call, mainvars, iconvars>>

CallGetFavicon ==
    /\ ret = Pending
    /\ call.fn = "get_favicon_base64"
    /\ LET r == get_favicon_base64(call.db, call.url, tmp_files)
       IN  /\ ret' = IF r.ret.k = "raise"
                     THEN [k |-> "returned", value |-> None, exc |-> r.ret]
                     ELSE [k |-> "returned", value |-> r.ret, exc |-> None]
           /\ tmp_files' = r.fs
    /\ UNCHANGED <<call, mainvars, iconvars>>

NextParsers == CallParseChromium \/ CallParseFirefox \/ CallGetFavicon

SpecParsers == InitParsers /\ [][NextParsers]_vars

----------------------------------------------------------------------------
(* main on bounded inputs *)

MainLeaves == {UrlNode(PyStr(<<"n">>), PyStr(UrlA), PyStr(<<"5">>))}

\* ... and a file with a bookmark whose name is written "\ud800"
MainFiles ==
    ChromiumFilesOver(MainLeaves, {PyStr(<<"A">>)})
    \cup {[k |-> "json",
           roots |-> <<Folder(PyStr(<<"A">>),
                              <<UrlNode(PyStr(<<Surrogate>>), PyStr(UrlSA),
                                        PyStr(<<"5">>))>>)>>]}

MainRows ==
    {[name |-> PyStr(<<"n">>), url |-> PyStr(UrlA),
      category |-> PyStr(<<"A", "/", "B">>), date_added |-> PyNum(5),
      last_visited |-> PyNum(7), favicon_data |-> PyStr(<<"P">>)],
     [name |-> PyStr(<<"m">>), url |-> PyStr(UrlSA),
      category |-> None, date_added |-> PyNum(5),
      last_visited |-> None, favicon_data |-> None]}

MainProfiles == FirefoxProfilesOver(MainRows)

MainFaviconDbs == {db \in FaviconDbs : db.k # "ok" \/ db.icons # <<>>}

\* the items an existing output file may hold: two records with the same
\* url, and an item without 'url'
SeedRecord(name, url, favicon) ==
    [name |-> name, url |-> url, category |-> PyStr(<<>>), tags |-> <<>>,
     favicon |-> favicon, browser |-> "edge", dateAdded |-> None,
     lastVisited |-> None]

SeedItems ==
    {SeedRecord(PyStr(<<"s">>), PyStr(UrlA), None),
     SeedRecord(PyStr(<<"t">>), PyStr(UrlA), DataUri(<<"P">>)),
     SeedRecord(PyStr(<<"s">>), Missing, None)}

\* the largest number of items of an existing output file
MaxSeed == 2

OutputFiles ==
    {[k |-> "absent"], [k |-> "notjson"], JsonDump(PyDict)}
    \cup {JsonDump(PyList(items)) : items \in SeqsUpTo(SeedItems, MaxSeed)}

BackupFiles == {[k |-> "absent"], [k |-> "stale"]}

InitMain ==
    /\ pc = "load"
    /\ args \in [browser : {"unset", "chrome", "firefox", "brave"},
                 include_favicons : BOOLEAN,
                 merge_existing : BOOLEAN]
    /\ output_file \in OutputFiles
    /\ backup_file \in BackupFiles
    /\ prior_output = output_file
    /\ all_bookmarks = PyList(<<>>)
    /\ processed_urls = {}
    /\ new_bookmarks = <<>>
    /\ todo = <<>>
    /\ log = {}
    /\ error = None
    /\ first_seen = {}
    /\ parsed_urls = {}
    /\ call = [fn |-> "main"]
    /\ ret = Pending
    /\ tmp_files = {}
    /\ IconsOff

\* where main goes when a browser's records are merged
AfterBrowser(rest) == IF rest = <<>> THEN "backup" ELSE "scan"

\* all_bookmarks = [], processed_urls = set(), the seed, browsers_to_scan
LoadExisting ==
    /\ pc = "load"
    /\ LET browsers_to_scan ==
               IF args.browser # "unset" THEN <<args.browser>> ELSE BrowserKeys
       IN  IF args.merge_existing /\ output_file.k # "absent"
           THEN LET r == load_existing(output_file)
                IN  /\ all_bookmarks' = r.all_bookmarks
                    /\ processed_urls' = r.processed_urls
                    /\ log' = IF r.warned THEN log \cup {"WARN corrupted"} ELSE log
                    /\ error' = r.exc
                    /\ pc' = IF r.exc.k = "raise" THEN "aborted" ELSE "scan"
                    /\ todo' = IF r.exc.k = "raise" THEN <<>> ELSE browsers_to_scan
                    /\ first_seen' = IF output_file.k = "json" /\ output_file.v.k = "list"
                                     THEN SeenAll(first_seen, output_file.v.v)
                                     ELSE first_seen
           ELSE /\ pc' = "scan"
                /\ todo' = browsers_to_scan
                /\ UNCHANGED <<all_bookmarks, processed_urls, log, error, first_seen>>
    /\ UNCHANGED iconvars
    /\ UNCHANGED <<args, output_file, backup_file, prior_output, new_bookmarks,
                   parsed_urls, call, ret, tmp_files>>

\* what main does with the result r of a parser
Scanned(r) ==
    /\ ret' = [k |-> "returned", value |-> r.ret, exc |-> r.exc]
    /\ tmp_files' = r.fs
    /\ todo' = Tail(todo)
    /\ IF r.exc.k = "raise"
       THEN /\ pc' = "aborted"
            /\ error' = r.exc
            /\ new_bookmarks' = <<>>
       ELSE /\ pc' = IF r.ret = <<>> THEN AfterBrowser(Tail(todo)) ELSE "merge"
            /\ error' = error
            /\ new_bookmarks' = r.ret
    /\ UNCHANGED iconvars
    /\ UNCHANGED <<args, output_file, backup_file, prior_output, all_bookmarks,
                   processed_urls, log, first_seen, parsed_urls>>

\* new_bookmarks = parse_chromium_bookmarks(BROWSER_PATHS[browser], browser, ...)
ScanChromium ==
    /\ pc = "scan"
    /\ Head(todo) # "firefox"
    /\ \E f \in MainFiles :
       \E db \in IF args.include_favicons /\ HasFaviconPath(Head(todo))
                 THEN MainFaviconDbs ELSE {Missing} :
          /\ call' = [fn |-> "parse_chromium_bookmarks", browser |-> Head(todo),
                      input |-> f.k]
          /\ Scanned(parse_chromium_bookmarks(f, Head(todo), args.include_favicons,
                                              db, tmp_files))

\* new_bookmarks = parse_firefox_bookmarks(BROWSER_PATHS[browser], browser, ...)
ScanFirefox ==
    /\ pc = "scan"
    /\ Head(todo) = "firefox"
    /\ \E p \in MainProfiles :
          /\ call' = [fn |-> "parse_firefox_bookmarks", browser |-> Head(todo),
                      input |-> p.k]
          /\ Scanned(parse_firefox_bookmarks(p, Head(todo), args.include_favicons,
                                             tmp_files))

\* one pass of the merge loop
MergeBookmark ==
    /\ pc = "merge"
    /\ LET m == merge_bookmark(Head(new_bookmarks), all_bookmarks, processed_urls)
           last == Tail(new_bookmarks) = <<>>
       IN  /\ all_bookmarks' = m.all_bookmarks
           /\ processed_urls' = m.processed_urls
           /\ error' = m.exc
           /\ new_bookmarks' = Tail(new_bookmarks)
           /\ pc' = IF m.exc.k = "raise" THEN "aborted"
                    ELSE IF last THEN AfterBrowser(todo) ELSE "merge"
           /\ first_seen' = Seen(first_seen, Head(new_bookmarks))
           /\ parsed_urls' = parsed_urls \cup {Head(new_bookmarks).url}
    /\ UNCHANGED iconvars
    /\ UNCHANGED <<args, output_file, backup_file, prior_output, todo, log,
                   call, ret, tmp_files>>

\* the backup of the existing file; shutil.copy2 may fail (OSError)
BackupExisting ==
    /\ pc = "backup"
    /\ \E copied \in IF output_file.k = "absent" THEN {TRUE} ELSE BOOLEAN :
          IF copied
          THEN /\ backup_file' = backup_existing(output_file, backup_file)
               /\ pc' = "write"
               /\ error' = error
          ELSE /\ backup_file' = backup_file
               /\ pc' = "aborted"
               /\ error' = Raise("OSError")
    /\ call' = [fn |-> "main"]      \* the scan loop is over: no parser call is current
    /\ ret' = Pending
    /\ UNCHANGED iconvars
    /\ UNCHANGED <<args, output_file, prior_output, all_bookmarks, processed_urls,
                   new_bookmarks, todo, log, tmp_files, first_seen, parsed_urls>>

\* the final write; an IOError is caught and reported, any other exception
\* leaves main
WriteOutput ==
    /\ pc = "write"
    /\ \E outcome \in WriteOutcomes(all_bookmarks) :
          /\ output_file' = write_output(all_bookmarks, output_file, outcome)
          /\ log' = IF outcome \in {"open_fails", "dump_fails"}
                    THEN log \cup {"FATAL write"} ELSE log
          /\ pc' = IF outcome = "encode_fails" THEN "aborted" ELSE "done"
          /\ error' = IF outcome = "encode_fails"
                      THEN Raise("UnicodeEncodeError") ELSE error
    /\ UNCHANGED iconvars
    /\ UNCHANGED <<args, backup_file, prior_output, all_bookmarks, processed_urls,
                   new_bookmarks, todo, call, ret, tmp_files, first_seen,
                   parsed_urls>>

Next == LoadExisting \/ ScanChromium \/ ScanFirefox \/ MergeBookmark
        \/ BackupExisting \/ WriteOutput

Spec == InitMain /\ [][Next]_vars

----------------------------------------------------------------------------
(* The converters applied to bounded inputs *)

MaxStrLen == 3

TimeChars == {"0", "5", "a", " ", "-", "."}

TimeInputs ==
    {None, PyNum(0), PyNum(5)} \cup {PyStr(s) : s \in SeqsUpTo(TimeChars, MaxStrLen)}

InitTime ==
    /\ call \in {[fn |-> "time", arg |-> t] : t \in TimeInputs}
    /\ ret = Pending
    /\ tmp_files = {}
    /\ MainOff
    /\ IconsOff

CallConvertChrome ==
    /\ call.fn = "time"
    /\ call' = [fn |-> "convert_chrome_time", arg |-> call.arg]
    /\ ret' = convert_chrome_time(call.arg)
    /\ UNCHANGED <<tmp_files, mainvars, iconvars>>

CallConvertFirefox ==
    /\ call.fn = "time"
    /\ call' = [fn |-> "convert_firefox_time", arg |-> call.arg]
    /\ ret' = convert_firefox_time(call.arg)
    /\ UNCHANGED <<tmp_files, mainvars, iconvars>>

NextTime == CallConvertChrome \/ CallConvertFirefox

SpecTime == InitTime /\ [][NextTime]_vars

----------------------------------------------------------------------------
(* IconExtractor: the icon cache *)

\* hashlib.md5(source_path.encode('utf-8')).hexdigest()
get_identifier(source_path) == <<"md5", source_path>>

\* self.icon_cache.get(identifier)
get_cached_icon(cache, identifier) ==
    IF identifier \in DOMAIN cache THEN cache[identifier] ELSE None

\* saved_paths: {'32x32': <dir>/<name>_32x32.png, '64x64': <dir>/<name>_64x64.png}
SavedPaths(dir, name) == [k |-> "paths", dir |-> dir, name |-> name]

\* {'path': saved_paths, 'source': source, 'type': type}
CacheEntry(saved_paths, source, type) ==
    [k |-> "entry", path |-> saved_paths, source |-> source, type |-> type]

\* {'path': {'64x64': <category>s/default_<category>.png}, 'source': 'fallback', ...}
generate_fallback_icon(name, category) ==
    [k |-> "entry", path |-> [k |-> "default", dir |-> category],
     source |-> "fallback", type |-> category]

\* self.icon_cache[identifier] = entry
Store(cache, identifier, entry) == (identifier :> entry) @@ cache

\* The result of extract_app_icon: the value returned, the cache afterwards,
\* whether the value came from the cache (hit) and whether an icon was
\* extracted from the executable (fetched). `outcome` is what the platform
\* does when the extraction is tried: "ok"; "no_icon" (ExtractIconEx raises
\* or finds no icon); "save_fails" (the icon is extracted, img.save raises);
\* "save_cache_fails" (_save_cache raises, after the cache entry was set).
extract_app_icon(cache, win32, exe_path, app_name, outcome) ==
    LET identifier == get_identifier(exe_path)
        cached == get_cached_icon(cache, identifier)
        saved_paths == SavedPaths("apps", app_name)
        entry == CacheEntry(saved_paths, exe_path, "app")
        fallback == generate_fallback_icon(app_name, "app")
    IN  IF cached # None
        THEN [ret |-> cached, cache |-> cache, hit |-> TRUE, fetched |-> FALSE]
        ELSE IF ~win32
        THEN [ret |-> fallback, cache |-> cache, hit |-> FALSE, fetched |-> FALSE]
        ELSE CASE outcome = "ok" ->
                    [ret |-> saved_paths, cache |-> Store(cache, identifier, entry),
                     hit |-> FALSE, fetched |-> TRUE]
               [] outcome = "no_icon" ->
                    [ret |-> fallback, cache |-> cache, hit |-> FALSE, fetched |-> FALSE]
               [] outcome = "save_fails" ->
                    [ret |-> fallback, cache |-> cache, hit |-> FALSE, fetched |-> TRUE]
               [] outcome = "save_cache_fails" ->
                    [ret |-> fallback, cache |-> Store(cache, identifier, entry),
                     hit |-> FALSE, fetched |-> TRUE]

\* The result of extract_favicon, likewise; fetched: the favicon was
\* downloaded. `outcome` is "ok"; "download_fails" (requests.get or
\* raise_for_status raises); "image_fails" (the download is no image that
\* Image.open reads); "save_cache_fails".
extract_favicon(cache, url, site_name, outcome) ==
    LET identifier == get_identifier(url)
        cached == get_cached_icon(cache, identifier)
        saved_paths == SavedPaths("bookmarks", site_name)
        entry == CacheEntry(saved_paths, url, "bookmark")
        fallback == generate_fallback_icon(site_name, "bookmark")
    IN  IF cached # None
        THEN [ret |-> cached, cache |-> cache, hit |-> TRUE, fetched |-> FALSE]
        ELSE CASE outcome = "ok" ->
                    [ret |-> saved_paths, cache |-> Store(cache, identifier, entry),
                     hit |-> FALSE, fetched |-> TRUE]
               [] outcome = "download_fails" ->
                    [ret |-> fallback, cache |-> cache, hit |-> FALSE, fetched |-> FALSE]
               [] outcome = "image_fails" ->
                    [ret |-> fallback, cache |-> cache, hit |-> FALSE, fetched |-> TRUE]
               [] outcome = "save_cache_fails" ->
                    [ret |-> fallback, cache |-> Store(cache, identifier, entry),
                     hit |-> FALSE, fetched |-> TRUE]

AppOutcomes == {"ok", "no_icon", "save_fails", "save_cache_fails"}
FaviconOutcomes == {"ok", "download_fails", "image_fails", "save_cache_fails"}

\* the items of a batch: an application, two bookmarks, an item of another type
BatchItems ==
    {[type |-> "app", name |-> "App", source |-> "app.exe"],
     [type |-> "bookmark", name |-> "Site", source |-> "http://a"],
     [type |-> "bookmark", name |-> "Other", source |-> "http://b"],
     [type |-> "folder", name |-> "Dir", source |-> "dir"]}

\* the largest number of items of a batch
MaxItems == 2

\* how often process_icon_batch is called with the list
MaxBatches == 2

InitIcons ==
    /\ has_win32 \in BOOLEAN
    /\ icon_cache = <<>>          \* _load_cache without a cache file: {}
    /\ item_list \in SeqsUpTo(BatchItems, MaxItems)
    /\ batch = 0
    /\ idx = 0
    /\ results = <<>>
    /\ icon_log = {}
    /\ call = [fn |-> "IconExtractor"]
    /\ ret = Pending
    /\ tmp_files = {}
    /\ MainOff

\* process_icon_batch(item_list) is called: results = []
ProcessIconBatch ==
    /\ call.fn \in {"IconExtractor", "process_icon_batch"}
    /\ idx = 0
    /\ batch < MaxBatches
    /\ batch' = batch + 1
    /\ idx' = 1
    /\ results' = <<>>
    /\ call' = [fn |-> "process_icon_batch"]
    /\ ret' = Pending
    /\ UNCHANGED <<has_win32, icon_cache, item_list, icon_log, tmp_files, mainvars>>

\* what one pass of `for item in item_list` does with the result r of an
\* extraction
Extracted(r) ==
    /\ results' = Append(results, r.ret)
    /\ icon_cache' = r.cache
    /\ icon_log' = icon_log \cup
            {[batch |-> batch, item |-> idx, hit |-> r.hit, fetched |-> r.fetched,
              value |-> r.ret]}
    /\ idx' = idx + 1
    /\ UNCHANGED <<has_win32, item_list, batch, call, ret, tmp_files, mainvars>>

\* item['type'] == 'app'
BatchExtractAppIcon ==
    /\ idx \in 1..Len(item_list)
    /\ item_list[idx].type = "app"
    /\ \E outcome \in AppOutcomes :
          Extracted(extract_app_icon(icon_cache, has_win32, item_list[idx].source,
                                     item_list[idx].name, outcome))

\* item['type'] == 'bookmark'
BatchExtractFavicon ==
    /\ idx \in 1..Len(item_list)
    /\ item_list[idx].type = "bookmark"
    /\ \E outcome \in FaviconOutcomes :
          Extracted(extract_favicon(icon_cache, item_list[idx].source,
                                    item_list[idx].name, outcome))

\* an item of any other type is passed over
BatchSkipItem ==
    /\ idx \in 1..Len(item_list)
    /\ item_list[idx].type \notin {"app", "bookmark"}
    /\ idx' = idx + 1
    /\ UNCHANGED <<has_win32, icon_cache, item_list, batch, results, icon_log,
                   call, ret, tmp_files, mainvars>>

\* return results
BatchReturn ==
    /\ idx = Len(item_list) + 1
    /\ idx' = 0
    /\ ret' = [k |-> "returned", value |-> results, exc |-> None]
    /\ UNCHANGED <<has_win32, icon_cache, item_list, batch, results, icon_log,
                   call, tmp_files, mainvars>>

NextIcons == ProcessIconBatch \/ BatchExtractAppIcon \/ BatchExtractFavicon
             \/ BatchSkipItem \/ BatchReturn

SpecIcons == InitIcons /\ [][NextIcons]_vars

----------------------------------------------------------------------------
(* Properties *)

HttpScheme == HTTP \o SchemeSep
HttpsScheme == HTTPS \o SchemeSep

ParserReturned ==
    /\ ret.k = "returned"
    /\ call.fn \in {"parse_chromium_bookmarks", "parse_firefox_bookmarks"}

\* C1: every record either parser emits has a url that starts with 'http://'
\* or 'https://'; a url with any other scheme never appears in the output.
C1_EmittedUrlsHaveHttpScheme ==
    ParserReturned =>
        \A i \in 1..Len(ret.value) :
            \/ StartsWith(ret.value[i].url.s, HttpScheme)
            \/ StartsWith(ret.value[i].url.s, HttpsScheme)

\* main returned and the final write succeeded
Written == pc = "done" /\ "FATAL write" \notin log

\* C2: the collection main writes to the output file holds no two records
\* with the same url, whatever the options, the existing file and the parsers.
C2_WrittenUrlsUnique ==
    (Written /\ output_file.v.k = "list") =>
        \A i, j \in 1..Len(output_file.v.v) :
            i < j => output_file.v.v[i].url # output_file.v.v[j].url

\* C3: first-seen-wins. For every url main came across (in the records of
\* the existing file when merging, then in the parsed records), the first
\* record of the collection with that url is the first record main came
\* across with it, unchanged, and every later record with that url was
\* dropped: the collection holds no second record with it.
C3_FirstSeenWins ==
    (pc \notin {"off", "aborted"} /\ all_bookmarks.k = "list") =>
        LET recs == all_bookmarks.v
        IN  /\ \A r \in first_seen :
                \E i \in 1..Len(recs) :
                    /\ recs[i] = r
                    /\ \A j \in 1..(i - 1) : recs[j].url # r.url
            /\ \A i, j \in 1..Len(recs) : i < j => recs[i].url # recs[j].url

\* C4: on every exit path of get_favicon_base64 and parse_firefox_bookmarks
\* the temporary database copy no longer exists when the function returns.
C4_TemporaryCopyRemoved == ParserReturned => tmp_files = {}

\* C5: a malformed input makes the parser yield an empty result, and main
\* goes on with the remaining browsers.
C5_MalformedInputYieldsEmpty ==
    (pc # "off" /\ ParserReturned /\ call.input \in {"notjson", "noroots", "corrupt"}) =>
        /\ ret.exc.k = "None"
        /\ ret.value = <<>>
        /\ pc # "aborted"

\* main went through the write step: it returned, or the write raised
WriteStepOver ==
    pc = "done" \/ (pc = "aborted" /\ error = Raise("UnicodeEncodeError"))

\* C6: the output file is not touched before the write step, and from the
\* write step on '<output>.bak' holds exactly the content the output file
\* had when main started (whatever '.bak' held before).
C6_BackupBeforeOverwrite ==
    pc # "off" =>
        /\ ~WriteStepOver => output_file = prior_output
        /\ ((pc = "write" \/ WriteStepOver) /\ prior_output.k # "absent") =>
                backup_file = prior_output

\* a run that replaced an existing output file and left its old content in
\* '.bak'
C6_Witness ==
    /\ pc = "done"
    /\ prior_output.k = "json"
    /\ output_file # prior_output
    /\ backup_file = prior_output

\* the existing output file is a list of records that all carry a url
WellFormedExisting ==
    /\ prior_output.k = "json"
    /\ prior_output.v.k = "list"
    /\ \A i \in 1..Len(prior_output.v.v) : prior_output.v.v[i].url.k # "missing"

SeedUrls == {prior_output.v.v[i].url : i \in 1..Len(prior_output.v.v)}

\* C7: merging into a well-formed existing file when the parsers bring no
\* url the file does not hold writes the records of the file, unchanged and
\* in the same order.
C7_MergeWithoutNewRecordsIsIdentity ==
    (args.merge_existing /\ WellFormedExisting /\ Written
        /\ parsed_urls \subseteq SeedUrls) =>
        output_file = prior_output

\* a merge into a file of two records in which the parsers brought records,
\* all with urls of the file, and the write succeeded
C7_Witness ==
    /\ args.merge_existing
    /\ WellFormedExisting
    /\ Written
    /\ Len(prior_output.v.v) = 2
    /\ parsed_urls # {}
    /\ parsed_urls \subseteq SeedUrls
    /\ output_file = prior_output

\* the existing output file is no JSON, or no list of records with a url
InvalidExisting == prior_output.k # "absent" /\ ~WellFormedExisting

\* C8: when merging, an invalid existing file is treated as empty, with a
\* warning: nothing of it is in the collection or in the dedup set.
C8_InvalidExistingTreatedAsEmpty ==
    (pc \notin {"off", "load"} /\ args.merge_existing /\ InvalidExisting) =>
        /\ "WARN corrupted" \in log
        /\ all_bookmarks.k = "list"
        /\ processed_urls \subseteq parsed_urls
        /\ \A i \in 1..Len(all_bookmarks.v) : all_bookmarks.v[i].url \in parsed_urls

\* the string is a decimal integer literal as int() reads it
IsIntLiteral(s) ==
    LET t == RStrip(LStrip(s))
        d == IF t # <<>> /\ Head(t) \in {"+", "-"} THEN Tail(t) ELSE t
    IN  d # <<>> /\ \A i \in 1..Len(d) : IsDigit(d[i])

\* ... and all its digits are 0
DenotesZero(s) ==
    /\ IsIntLiteral(s)
    /\ \A i \in 1..Len(s) : s[i] \in {"0", " ", "+", "-"}

ZeroOrMissing(t) ==
    \/ t.k = "None"
    \/ t.k = "int" /\ t.n = 0
    \/ t.k = "str" /\ (t.s = <<>> \/ DenotesZero(t.s))

ConverterReturned ==
    call.fn \in {"convert_chrome_time", "convert_firefox_time"}

\* C9: for a zero or missing timestamp both converters return None, never
\* the instant of the epoch origin.
C9_ZeroOrMissingIsAbsent ==
    (ConverterReturned /\ ZeroOrMissing(call.arg)) => ret.k = "None"

\* a converter returned None for a string of several characters denoting 0
C9_Witness ==
    /\ ConverterReturned
    /\ call.arg.k = "str"
    /\ Len(call.arg.s) > 1
    /\ DenotesZero(call.arg.s)
    /\ ret.k = "None"

\* C10: for a non-numeric timestamp both converters return None and do not
\* fail.
C10_NonNumericIsAbsent ==
    (ConverterReturned /\ call.arg.k = "str" /\ call.arg.s # <<>>
        /\ ~IsIntLiteral(call.arg.s)) =>
        ret.k = "None"

\* C11: get_favicon_base64 never raises: whatever fails (no database file,
\* no temporary copy, a copy that is no SQLite database, a failing query, no
\* matching row), it returns None or the data URI.
C11_FaviconFetchNeverRaises ==
    (ret.k = "returned" /\ call.fn = "get_favicon_base64") =>
        /\ ret.exc.k = "None"
        /\ ret.value.k \in {"None", "datauri"}

\* the maximal runs of characters other than '/' in s, in order
RECURSIVE SegmentsFrom(_, _, _)
SegmentsFrom(s, i, run) ==
    LET closed == IF run = <<>> THEN <<>> ELSE <<run>>
    IN  IF i > Len(s) THEN closed
        ELSE IF s[i] = "/" THEN closed \o SegmentsFrom(s, i + 1, <<>>)
        ELSE SegmentsFrom(s, i + 1, Append(run, s[i]))

NonEmptySegments(s) == SegmentsFrom(s, 1, <<>>)

\* C12: for every record either parser emits, tags is the ordered sequence
\* of the non-empty segments of the record's category split on '/': no tag
\* is empty, 'A/B' gives ['A', 'B'] and the empty category gives [].
C12_TagsAreNonEmptyCategorySegments ==
    ParserReturned =>
        \A i \in 1..Len(ret.value) :
            /\ ret.value[i].tags = NonEmptySegments(ret.value[i].category.s)
            /\ \A j \in 1..Len(ret.value[i].tags) : ret.value[i].tags[j] # <<>>

\* a parser emitted a record whose category 'A//B' has an empty segment,
\* with the tags A and B
C12_Witness ==
    /\ ParserReturned
    /\ \E i \in 1..Len(ret.value) :
        /\ ret.value[i].category.s = <<"A", "/", "/", "B">>
        /\ ret.value[i].tags = << <<"A">>, <<"B">> >>

\* the number of records main took over from the existing output file
SeedLen ==
    IF args.merge_existing /\ prior_output.k = "json" /\ prior_output.v.k = "list"
    THEN Len(prior_output.v.v) ELSE 0

\* C13 as stated: in a run without --include-favicons every record of the
\* written output has favicon None, also when --merge-existing seeds the
\* collection from the existing file.
C13_NoFaviconsWithoutFlag ==
    (Written /\ ~args.include_favicons /\ output_file.v.k = "list") =>
        \A i \in 1..Len(output_file.v.v) : output_file.v.v[i].favicon = None

\* C13 amended: in a run without --include-favicons every record of the
\* written output that a parser produced in this run has favicon None; the
\* records taken over from the existing file are written as they were read,
\* with the favicon they had.
C13_ParsedRecordsHaveNoFavicon ==
    (Written /\ ~args.include_favicons /\ output_file.v.k = "list") =>
        /\ Len(output_file.v.v) >= SeedLen
        /\ \A i \in 1..Len(output_file.v.v) :
            IF i > SeedLen THEN output_file.v.v[i].favicon = None
            ELSE output_file.v.v[i] = prior_output.v.v[i]

\* a run without --include-favicons wrote a seed record that has a favicon,
\* followed by a record of the Firefox row that has favicon data
C13_Witness ==
    /\ Written /\ ~args.include_favicons /\ output_file.v.k = "list"
    /\ SeedLen >= 1
    /\ Len(output_file.v.v) > SeedLen
    /\ output_file.v.v[1].favicon # None
    /\ \E i \in (SeedLen + 1)..Len(output_file.v.v) :
        /\ output_file.v.v[i].browser = "firefox"
        /\ output_file.v.v[i].favicon = None

\* main returned after the final write failed
WriteFailed == pc = "done" /\ "FATAL write" \in log

\* C14: a failing final write leaves no partial or corrupt file: the output
\* file then holds the complete content it had before the run or the
\* complete new collection.
C14_FailedWriteLeavesNoPartialFile ==
    WriteFailed => output_file \in {prior_output, JsonDump(all_bookmarks)}

\* C15: a failure of the final write is caught and reported, never raised
\* out of main: whatever the write step does, main then returns with no
\* exception, and with the failure reported unless the new collection is in
\* the file.
C15_WriteFailureIsCaught ==
    [][pc = "write" =>
        /\ pc' = "done"
        /\ error'.k = "None"
        /\ (output_file' # JsonDump(all_bookmarks)) => "FATAL write" \in log']_vars

\* the input of the parser call that returned last is missing: no Chromium
\* bookmarks file, no Firefox profiles directory, no places.sqlite below it
MissingInput ==
    /\ pc # "off"
    /\ ParserReturned
    /\ call.input \in {"absent", "nodir", "nosqlite"}

\* C16: a missing input makes the parser return an empty result without
\* raising, and main goes on: to the next browser to scan when one is left,
\* else to the backup and the write of the output.
C16_MissingInputYieldsEmpty ==
    MissingInput =>
        /\ ret.exc.k = "None"
        /\ ret.value = <<>>
        /\ error.k = "None"
        /\ todo = <<>> => pc = "backup"
        /\ todo # <<>> => pc = "scan"

\* chrome's file and the Firefox profiles directory were missing, brave is
\* still to be scanned, and the records of no browser were lost
C16_Witness ==
    /\ MissingInput
    /\ call.browser = "firefox"
    /\ call.input = "nodir"
    /\ todo = <<"brave">>
    /\ pc = "scan"
    /\ all_bookmarks = PyList(<<>>)

\* C17: a run without --merge-existing replaces the output file wholesale:
\* what it writes is exactly the records parsed in this run, one per url
\* (the first parsed with it), and nothing of the previous output file.
C17_WithoutMergeOutputIsParsedRecords ==
    (Written /\ ~args.merge_existing) =>
        /\ output_file.v.k = "list"
        /\ LET recs == output_file.v.v
           IN  /\ {recs[i] : i \in 1..Len(recs)} = first_seen
               /\ {recs[i].url : i \in 1..Len(recs)} = parsed_urls
               /\ Len(recs) = Cardinality(parsed_urls)
               /\ \A i \in 1..Len(recs) : recs[i].browser \in {"chrome", "firefox", "brave"}

\* a run without --merge-existing replaced an output file holding a record
\* by the records of two browsers, one of them with the url of that record
C17_Witness ==
    /\ Written /\ ~args.merge_existing
    /\ prior_output.k = "json" /\ prior_output.v.k = "list"
    /\ Len(prior_output.v.v) >= 1
    /\ Len(output_file.v.v) = 2
    /\ output_file.v.v[1].browser # output_file.v.v[2].browser
    /\ \E i \in 1..2 : output_file.v.v[i].url = prior_output.v.v[1].url

\* '/'.join(names)
RECURSIVE JoinSlash(_)
JoinSlash(names) ==
    IF names = <<>> THEN <<>>
    ELSE IF Len(names) = 1 THEN names[1]
    ELSE names[1] \o <<"/">> \o JoinSlash(Tail(names))

IsHttpUrl(url) ==
    /\ url.k = "str"
    /\ StartsWith(url.s, HttpScheme) \/ StartsWith(url.s, HttpsScheme)

\* the url and the names of the enclosing folders, joined by '/', of every
\* URL-type node with an http/https url among `nodes` and below, in
\* document order; names: the names of the folders around `nodes`, from the
\* root downwards, a missing name read as ''
RECURSIVE UrlNodesWithFolders(_, _)
UrlNodesWithFolders(nodes, names) ==
    IF nodes = <<>> THEN <<>>
    ELSE LET node == Head(nodes)
             here == IF node.type = "url" /\ IsHttpUrl(node.url)
                     THEN << [url |-> node.url, category |-> JoinSlash(names)] >>
                     ELSE IF node.type = "folder"
                     THEN UrlNodesWithFolders(node.children,
                              Append(names, Get(node.name, PyStr(<<>>)).s))
                     ELSE <<>>
         IN  here \o UrlNodesWithFolders(Tail(nodes), names)

\* the url and category of the emitted records that have an http/https url
RECURSIVE EmittedHttp(_)
EmittedHttp(records) ==
    IF records = <<>> THEN <<>>
    ELSE (IF IsHttpUrl(Head(records).url)
          THEN << [url |-> Head(records).url, category |-> Head(records).category.s] >>
          ELSE <<>>) \o EmittedHttp(Tail(records))

\* C18: parse_chromium_bookmarks emits exactly one record for every URL-type
\* node with an http/https url, and the record's category is the names of
\* all the folders enclosing the node, from the root downwards, joined by
\* '/', also when a folder's name is empty or missing.
C18_CategoryIsEnclosingFolderNames ==
    (ret.k = "returned" /\ call.fn = "parse_chromium_bookmarks" /\ call.file.k = "json") =>
        EmittedHttp(ret.value) = UrlNodesWithFolders(call.file.roots, <<>>)

\* C19: when process_icon_batch processes the same list a second time with
\* the same IconExtractor, every item is served from the icon cache: for no
\* item is an icon extracted from an executable or a favicon downloaded in
\* the second batch.
C19_SecondBatchServedFromCache ==
    \A e \in icon_log : e.batch = 2 => (e.hit /\ ~e.fetched)

\* the url values of the records in all_bookmarks (the empty dict holds none)
UrlsOf(all) ==
    IF all.k = "list" THEN {all.v[i].url : i \in 1..Len(all.v)} ELSE {}

\* C20: from the start of the scan loop to the write step, through every
\* pass of the merge loop, processed_urls is exactly the set of the urls of
\* the records in all_bookmarks, whatever the existing file and the parsers
\* brought.
C20_ProcessedUrlsAreCollectionUrls ==
    pc \in {"scan", "merge", "backup", "write", "done"} =>
        processed_urls = UrlsOf(all_bookmarks)

\* in the merge loop of a run seeded from the existing file, after a parsed
\* record with a new url was appended
C20_Witness ==
    /\ pc = "merge"
    /\ SeedLen >= 1
    /\ all_bookmarks.k = "list"
    /\ Len(all_bookmarks.v) > SeedLen
    /\ Cardinality(processed_urls) = 2
    /\ new_bookmarks # <<>>

\* the source the extraction logged as e was called with
SourceOf(e) == item_list[e.item].source

\* e logs a first call that succeeded: the icon was extracted or downloaded,
\* stored in the cache, and saved_paths returned
FirstSuccess(e) == ~e.hit /\ e.value.k = "paths"

\* C21: for one IconExtractor and one source, a first call that succeeds and
\* every later call that hits the cache return the same value.
C21_CacheHitReturnsOriginalResult ==
    \A e1, e2 \in icon_log :
        (FirstSuccess(e1) /\ e2.hit /\ SourceOf(e1) = SourceOf(e2)) =>
            e2.value = e1.value

============================================================================
